---------------------------- MODULE Spec2Model ----------------------------
(***************************************************************************)
(* Authentication / authorization core of the Orange Plan Manager backend: *)
(* the user directory, the token codec, the authenticator, the token       *)
(* issuer / refresher, the access guard and the user CRUD handlers.        *)
(*                                                                         *)
(* Abstractions:                                                           *)
(*  - a password is a tuple of one-character strings;                      *)
(*  - a bcrypt hash is the record [alg, plain]: it is never the plaintext   *)
(*    itself and verify compares the plaintext it derives from; the random *)
(*    salt is abstracted away;                                             *)
(*  - a JWT is the record [sub, role, exp, sig]; sig is TRUE exactly for   *)
(*    tokens signed with SECRET_KEY; the refresh token, which carries no   *)
(*    role claim, has role = NoRole;                                       *)
(*  - the clock counts ticks, TicksPerSecond of them to the second, and    *)
(*    jumps between the sampled instants; the exp claim of a token is in   *)
(*    whole seconds, as jwt.encode writes it;                              *)
(*  - the store is the PostgreSQL table declared by the User model: it     *)
(*    assigns ids from a sequence and enforces the declared constraints    *)
(*    (unique username, enum-typed role) at commit.                        *)
(*  - created_at / updated_at are not modelled; first_name and last_name   *)
(*    are empty unless an update sets them.                                *)
(*                                                                         *)
(* Two specifications explore the same handlers over different inputs:     *)
(* SpecAuth varies time, tokens, roles and the active flag (token          *)
(* lifecycle and access guard); SpecDir varies usernames, emails and       *)
(* passwords (integrity of the directory). Four more apply one operation   *)
(* to every input of a bounded domain: SpecRole the role test of           *)
(* RoleChecker, SpecCodec encode_token / decode_token around the expiry,   *)
(* SpecPolicy validate_password and a registration, SpecPatch one PATCH    *)
(* of update_user.                                                         *)
(***************************************************************************)
EXTENDS Naturals, Sequences, FiniteSets, TLC

VARIABLES directory, nextId, now, tokens, resp

vars == <<directory, nextId, now, tokens, resp>>

-----------------------------------------------------------------------------
(* Bounds *)

MaxId == 2
TicksPerSecond == 2
MaxLen == 6

-----------------------------------------------------------------------------
(* Program constants *)

ACCESS_TOKEN_EXPIRE_MINUTES == 15
REFRESH_TOKEN_EXPIRE_DAYS == 7

(* timedelta(minutes=n) and timedelta(days=n), in ticks *)
Minutes(n) == n * 60 * TicksPerSecond
Days(n) == n * 24 * 60 * 60 * TicksPerSecond
AccessTtl == Minutes(ACCESS_TOKEN_EXPIRE_MINUTES)
RefreshTtl == Days(REFRESH_TOKEN_EXPIRE_DAYS)

ADMIN == "Administrateur"
USER == "Utilisateur"
TESTER == "Testeur"
RoleType == {ADMIN, USER, TESTER}
Wildcard == "*"
NoRole == "none"

-----------------------------------------------------------------------------
(* Input domains *)

Usernames == {"alice", "bob"}
Emails == {"a@x.org", "b@x.org"}
StrongPw == <<"S", "t", "r", "0", "n", "g", "!", "P", "w">>
WeakPw == <<"a", "b", "c">>
Passwords == {StrongPw, WeakPw}
EmailFor(n) == IF n = "alice" THEN "a@x.org" ELSE "b@x.org"
RoleInputs == {ADMIN, USER, "Bogus"}
NoName == "None"
Names == {"Al"}
EmptyPw == <<>>
Instants == {0, AccessTtl}

UpperChars == {"S", "P", "A"}
LowerChars == {"t", "r", "n", "g", "w", "a", "b", "c"}
DigitChars == {"0", "1"}
SpecialChars == {"@", "$", "!", "%", "*", "?", "&", "#"}

-----------------------------------------------------------------------------
(* Results of the helpers: status, detail and the value (a set of 0 or 1) *)

Ok(v) == [status |-> 200, detail |-> "", val |-> {v}]
Err(s, d) == [status |-> s, detail |-> d, val |-> {}]
IsOk(r) == r.status = 200
The(S) == CHOOSE x \in S : TRUE

CREDENTIALS_EXCEPTION == Err(401, "Could not validate credentials")
TOKEN_EXPIRE_EXCEPTION == Err(401, "Token expired.")

-----------------------------------------------------------------------------
(* encoders.py *)

verify_password(plain_password, hashed_password) ==
    hashed_password.plain = plain_password

hash_password(password) == [alg |-> "bcrypt", plain |-> password]

(* jwt.encode writes the datetime `expire` as whole seconds since the epoch *)
encode_token(sub, role, expires_delta, t) ==
    [sub |-> sub, role |-> role, exp |-> (t + expires_delta) \div TicksPerSecond,
     sig |-> TRUE]

(* Variant: a token is still accepted during the second of its expiry. *)
decode_token_through_exp(token, t) ==
    IF ~token.sig THEN CREDENTIALS_EXCEPTION
    ELSE IF token.exp * TicksPerSecond + TicksPerSecond <= t THEN TOKEN_EXPIRE_EXCEPTION
    ELSE Ok(token)

(* jwt.decode checks the signature, then the exp claim against the clock: *)
(* the token is expired from the second exp on.                           *)
decode_token(token, t) ==
    IF ~token.sig THEN CREDENTIALS_EXCEPTION
    ELSE IF token.exp * TicksPerSecond <= t THEN TOKEN_EXPIRE_EXCEPTION
    ELSE Ok(token)

-----------------------------------------------------------------------------
(* dependencies.py *)

get_user(username, dir) ==
    LET found == {u \in dir : u.username = username}
    IN  IF found = {} THEN Err(404, "User not found") ELSE Ok(The(found))

(* Variant: the password is verified before the active flag is read. *)
authenticate_user_password_first(username, password, dir) ==
    LET r == get_user(username, dir)
    IN  IF ~IsOk(r) THEN r
        ELSE LET user == The(r.val)
             IN  IF ~verify_password(password, user.hashed_password)
                 THEN CREDENTIALS_EXCEPTION
                 ELSE IF ~user.is_active THEN Err(423, "Inactive user.")
                 ELSE Ok(user)

authenticate_user(username, password, dir) ==
    LET r == get_user(username, dir)
    IN  IF ~IsOk(r) THEN r
        ELSE LET user == The(r.val)
             IN  IF ~user.is_active THEN Err(423, "Inactive user.")
                 ELSE IF ~verify_password(password, user.hashed_password)
                      THEN CREDENTIALS_EXCEPTION
                 ELSE Ok(user)

(* Variant: the role claim of the token overrides the stored role. *)
get_current_user_trusting_claims(token, dir, t) ==
    LET p == decode_token(token, t)
        r == IF IsOk(p) THEN get_user(The(p.val).sub, dir) ELSE p
    IN  IF IsOk(r) /\ token.role # NoRole
        THEN Ok([The(r.val) EXCEPT !.role = token.role])
        ELSE r

(* Variant: a token without a role claim is refused as a bearer token. *)
get_current_user_access_only(token, dir, t) ==
    LET p == decode_token(token, t)
    IN  IF ~IsOk(p) THEN p
        ELSE IF The(p.val).sub = "" \/ The(p.val).role = NoRole
        THEN CREDENTIALS_EXCEPTION
        ELSE get_user(The(p.val).sub, dir)

get_current_user(token, dir, t) ==
    LET p == decode_token(token, t)
    IN  IF ~IsOk(p) THEN p
        ELSE IF The(p.val).sub = "" THEN CREDENTIALS_EXCEPTION
        ELSE get_user(The(p.val).sub, dir)

get_current_active_user(token, dir, t) ==
    LET r == get_current_user(token, dir, t)
    IN  IF ~IsOk(r) THEN r
        ELSE IF ~The(r.val).is_active THEN Err(400, "Inactive user")
        ELSE r

HasChar(p, S) == \E i \in 1..Len(p) : p[i] \in S

(* Variant: the digit rule is tried before the lowercase rule. *)
validate_password_digit_first(password) ==
    IF ~(Len(password) >= 6)
    THEN Err(400, "Password must be at least 6 characters long.")
    ELSE IF ~HasChar(password, UpperChars)
    THEN Err(400, "Password must contain at least one uppercase letter.")
    ELSE IF ~HasChar(password, DigitChars)
    THEN Err(400, "Password must contain at least one number.")
    ELSE IF ~HasChar(password, LowerChars)
    THEN Err(400, "Password must contain at least one lowercase letter.")
    ELSE IF ~HasChar(password, SpecialChars)
    THEN Err(400, "Password must contain at least one special character.")
    ELSE Ok(password)

validate_password(password) ==
    IF ~(Len(password) >= 6)
    THEN Err(400, "Password must be at least 6 characters long.")
    ELSE IF ~HasChar(password, UpperChars)
    THEN Err(400, "Password must contain at least one uppercase letter.")
    ELSE IF ~HasChar(password, LowerChars)
    THEN Err(400, "Password must contain at least one lowercase letter.")
    ELSE IF ~HasChar(password, DigitChars)
    THEN Err(400, "Password must contain at least one number.")
    ELSE IF ~HasChar(password, SpecialChars)
    THEN Err(400, "Password must contain at least one special character.")
    ELSE Ok(password)

(* Variant: the wildcard is not honoured. *)
check_role_no_wildcard(user, allowed_roles) ==
    IF user.role \in allowed_roles
    THEN Ok(user)
    ELSE Err(403, "You don't have enough permissions")

check_role(user, allowed_roles) ==
    IF user.role \in allowed_roles \/ Wildcard \in allowed_roles
    THEN Ok(user)
    ELSE Err(403, "You don't have enough permissions")

(* Variant: the role is checked before the active flag. *)
RoleChecker_role_first(allowed_roles, token, dir, t) ==
    LET r == get_current_user(token, dir, t)
        c == IF IsOk(r) THEN check_role(The(r.val), allowed_roles) ELSE r
    IN  IF ~IsOk(c) THEN c ELSE get_current_active_user(token, dir, t)

RoleChecker(allowed_roles, token, dir, t) ==
    LET r == get_current_active_user(token, dir, t)
    IN  IF ~IsOk(r) THEN r ELSE check_role(The(r.val), allowed_roles)

-----------------------------------------------------------------------------
(* The store: the "user" table of user_models.py behind db/session.py *)

ById(dir, id) == {u \in dir : u.id = id}

NewUser(id, username, email, hashed, role) ==
    [id |-> id, username |-> username, email |-> email,
     first_name |-> NoName, last_name |-> NoName,
     hashed_password |-> hashed, role |-> role, is_active |-> TRUE]

(* commit of an UPDATE of row `old` to `new`: the unique index on username *)
(* and the enum type of the role column are checked by the database.       *)
CommitAccepts(dir, old, new) ==
    /\ \A u \in dir \ {old} : u.username # new.username
    /\ new.role \in RoleType

-----------------------------------------------------------------------------
(* Requests *)

ForgedToken == [sub |-> "alice", role |-> ADMIN, exp |-> 20000, sig |-> FALSE]
Presentable == tokens \cup {ForgedToken}
AccessTokens == {t \in Presentable : t.role # NoRole}

Unset == {}
Opt(S) == {Unset} \cup {{x} : x \in S}
Truthy(f) == f # {} /\ \A x \in f : x # <<>> /\ x # ""

CreatePayloads == [username : Usernames, email : Emails, password : Passwords]
AuthCreates ==
    {c \in CreatePayloads : c.email = EmailFor(c.username) /\ c.password = StrongPw}

NoChange ==
    [username |-> Unset, email |-> Unset, first_name |-> Unset, last_name |-> Unset,
     is_active |-> Unset, role |-> Unset,
     old_password |-> Unset, new_password |-> Unset]
SetUsername == {[NoChange EXCEPT !.username = {x}] : x \in Usernames}
SetEmail == {[NoChange EXCEPT !.email = {x}] : x \in Emails}
SetActive == {[NoChange EXCEPT !.is_active = {x}] : x \in BOOLEAN}
SetRole == {[NoChange EXCEPT !.role = {x}] : x \in RoleInputs}
PasswordParts ==
    [old_password : Opt(Passwords), new_password : Opt(Passwords)] \
        {[old_password |-> Unset, new_password |-> Unset]}
WithPasswords(P) ==
    {[d EXCEPT !.old_password = p.old_password, !.new_password = p.new_password] :
        d \in P, p \in PasswordParts}
AuthUpdates == {NoChange} \cup SetActive \cup SetRole
DirUpdates ==
    {NoChange} \cup SetUsername \cup SetEmail
        \cup WithPasswords({NoChange} \cup SetEmail)

(* The last exchange: the operation, the token presented, the login form,  *)
(* the status and detail of the response and the token pair it carries.    *)
Resp(op, r, tok, uname, pw, acc, ref) ==
    [op |-> op, status |-> r.status, detail |-> r.detail, token |-> tok,
     username |-> uname, password |-> pw, access |-> acc, refresh |-> ref]

(* The pair goes out in the response; the client either stores it in place *)
(* of the pair it held for that account or goes on with the one it held.   *)
Issue(op, user, tok, uname, pw) ==
    LET a == encode_token(user.username, user.role, AccessTtl, now)
        f == encode_token(user.username, NoRole, RefreshTtl, now)
    IN  /\ \/ tokens' = {t \in tokens : t.sub # user.username} \cup {a, f}
           \/ tokens' = tokens
        /\ resp' = Resp(op, Ok(user), tok, uname, pw, {a}, {f})

Fail(op, r, tok) ==
    /\ resp' = Resp(op, r, tok, {}, {}, {}, {})
    /\ UNCHANGED <<directory, nextId, now, tokens>>

Done(op, status, tok) ==
    resp' = Resp(op, [status |-> status, detail |-> ""], tok, {}, {}, {}, {})

-----------------------------------------------------------------------------
(* scripts/create_admin.py *)

create_admin_user(username, email, password) ==
    /\ IF \E u \in directory : u.username = username
       THEN /\ resp' = Resp("create_admin", Err(0, "already exists"), {}, {}, {}, {}, {})
            /\ UNCHANGED <<directory, nextId>>
       ELSE /\ nextId <= MaxId
            /\ directory' = directory \cup
                 {NewUser(nextId, username, email, hash_password(password), ADMIN)}
            /\ nextId' = nextId + 1
            /\ Done("create_admin", 0, {})
    /\ UNCHANGED <<now, tokens>>

-----------------------------------------------------------------------------
(* routers/auth.py *)

(* Variant: the username lookup is skipped. *)
create_user_no_username_check(token, user) ==
    LET g == RoleChecker({ADMIN}, token, directory, now)
        v == validate_password(user.password)
    IN  IF ~IsOk(g) THEN Fail("register", g, {token})
        ELSE IF \E u \in directory : u.email = user.email
        THEN Fail("register", Err(409, "l'Email est deja utilise."), {token})
        ELSE IF ~IsOk(v) THEN Fail("register", v, {token})
        ELSE /\ nextId <= MaxId
             /\ directory' = directory \cup
                  {NewUser(nextId, user.username, user.email,
                           hash_password(user.password), USER)}
             /\ nextId' = nextId + 1
             /\ Done("register", 201, {token})
             /\ UNCHANGED <<now, tokens>>

create_user(token, user) ==
    LET g == RoleChecker({ADMIN}, token, directory, now)
        v == validate_password(user.password)
    IN  IF ~IsOk(g) THEN Fail("register", g, {token})
        ELSE IF \E u \in directory : u.username = user.username
        THEN Fail("register", Err(409, "L'utilisateur existe dejas."), {token})
        ELSE IF \E u \in directory : u.email = user.email
        THEN Fail("register", Err(409, "l'Email est deja utilise."), {token})
        ELSE IF ~IsOk(v) THEN Fail("register", v, {token})
        ELSE /\ nextId <= MaxId
             /\ directory' = directory \cup
                  {NewUser(nextId, user.username, user.email,
                           hash_password(user.password), USER)}
             /\ nextId' = nextId + 1
             /\ Done("register", 201, {token})
             /\ UNCHANGED <<now, tokens>>

login_for_access_token(username, password) ==
    LET r == authenticate_user(username, password, directory)
    IN  IF ~IsOk(r)
        THEN /\ resp' = Resp("login", r, {}, {username}, {password}, {}, {})
             /\ UNCHANGED <<directory, nextId, now, tokens>>
        ELSE /\ Issue("login", The(r.val), {}, {username}, {password})
             /\ UNCHANGED <<directory, nextId, now>>

(* Variant: the new access token repeats the role claim of the old token. *)
refresh_token_stale_role(token) ==
    LET p == decode_token(token, now)
        r == IF IsOk(p) THEN get_user(The(p.val).sub, directory) ELSE p
    IN  IF ~IsOk(r) THEN Fail("refresh", r, {token})
        ELSE /\ Issue("refresh", [The(r.val) EXCEPT !.role = token.role],
                      {token}, {}, {})
             /\ UNCHANGED <<directory, nextId, now>>

refresh_token(token) ==
    LET p == decode_token(token, now)
        r == IF IsOk(p) THEN get_user(The(p.val).sub, directory) ELSE p
    IN  IF ~IsOk(r) THEN Fail("refresh", r, {token})
        ELSE /\ Issue("refresh", The(r.val), {token}, {}, {})
             /\ UNCHANGED <<directory, nextId, now>>

read_users_me(token) ==
    LET g == get_current_active_user(token, directory, now)
    IN  IF ~IsOk(g) THEN Fail("me", g, {token})
        ELSE /\ Done("me", 200, {token})
             /\ UNCHANGED <<directory, nextId, now, tokens>>

-----------------------------------------------------------------------------
(* routers/users.py *)

get_user_by_id(dir, user_id) ==
    IF ById(dir, user_id) = {} THEN Err(404, "User not found.")
    ELSE Ok(The(ById(dir, user_id)))

list_users(token) ==
    LET g == RoleChecker({ADMIN}, token, directory, now)
    IN  IF ~IsOk(g) THEN Fail("list_users", g, {token})
        ELSE /\ Done("list_users", 200, {token})
             /\ UNCHANGED <<directory, nextId, now, tokens>>

users_get_user(token, user_id) ==
    LET g == RoleChecker({ADMIN}, token, directory, now)
        u == get_user_by_id(directory, user_id)
    IN  IF ~IsOk(g) THEN Fail("get_user", g, {token})
        ELSE IF ~IsOk(u) THEN Fail("get_user", u, {token})
        ELSE /\ Done("get_user", 200, {token})
             /\ UNCHANGED <<directory, nextId, now, tokens>>

(* the row after user.sqlmodel_update(user_update_data): every key of the *)
(* payload that is a column of User is assigned.                           *)
sqlmodel_update(user, data, hashed) ==
    [user EXCEPT
       !.username = IF data.username # Unset THEN The(data.username) ELSE @,
       !.email = IF data.email # Unset THEN The(data.email) ELSE @,
       !.first_name = IF data.first_name # Unset THEN The(data.first_name) ELSE @,
       !.last_name = IF data.last_name # Unset THEN The(data.last_name) ELSE @,
       !.is_active = IF data.is_active # Unset THEN The(data.is_active) ELSE @,
       !.role = IF data.role # Unset THEN The(data.role) ELSE @,
       !.hashed_password = IF hashed # Unset THEN The(hashed) ELSE @]

(* Variant: the new hash is stored without verifying the old password. *)
update_user_unverified(token, user_id, user_update) ==
    LET g == RoleChecker({ADMIN}, token, directory, now)
        u == get_user_by_id(directory, user_id)
        user == The(u.val)
        change == Truthy(user_update.old_password) /\ Truthy(user_update.new_password)
        hashed == IF change
                  THEN {hash_password(The(user_update.new_password))}
                  ELSE Unset
        new == sqlmodel_update(user, user_update, hashed)
    IN  IF ~IsOk(g) THEN Fail("update_user", g, {token})
        ELSE IF ~IsOk(u) THEN Fail("update_user", u, {token})
        ELSE IF ~CommitAccepts(directory, user, new)
        THEN Fail("update_user", Err(500, "Internal Server Error"), {token})
        ELSE /\ directory' = (directory \ {user}) \cup {new}
             /\ Done("update_user", 200, {token})
             /\ UNCHANGED <<nextId, now, tokens>>

update_user(token, user_id, user_update) ==
    LET g == RoleChecker({ADMIN}, token, directory, now)
        u == get_user_by_id(directory, user_id)
        user == The(u.val)
        change == Truthy(user_update.old_password) /\ Truthy(user_update.new_password)
        verified == verify_password(The(user_update.old_password), user.hashed_password)
        hashed == IF change
                  THEN {hash_password(The(user_update.new_password))}
                  ELSE Unset
        new == sqlmodel_update(user, user_update, hashed)
    IN  IF ~IsOk(g) THEN Fail("update_user", g, {token})
        ELSE IF ~IsOk(u) THEN Fail("update_user", u, {token})
        ELSE IF change /\ ~verified THEN Fail("update_user", CREDENTIALS_EXCEPTION, {token})
        ELSE IF ~CommitAccepts(directory, user, new)
        THEN Fail("update_user", Err(500, "Internal Server Error"), {token})
        ELSE /\ directory' = (directory \ {user}) \cup {new}
             /\ Done("update_user", 200, {token})
             /\ UNCHANGED <<nextId, now, tokens>>

delete_user(token, user_id) ==
    LET g == RoleChecker({ADMIN}, token, directory, now)
        u == get_user_by_id(directory, user_id)
    IN  IF ~IsOk(g) THEN Fail("delete_user", g, {token})
        ELSE IF ~IsOk(u) THEN Fail("delete_user", u, {token})
        ELSE /\ directory' = directory \ {The(u.val)}
             /\ Done("delete_user", 204, {token})
             /\ UNCHANGED <<nextId, now, tokens>>

-----------------------------------------------------------------------------
(* The clock read by encode_token and by jwt.decode *)

Tick ==
    /\ \E t \in Instants : t > now /\ now' = t
    /\ resp' = Resp("tick", [status |-> 0, detail |-> ""], {}, {}, {}, {}, {})
    /\ UNCHANGED <<directory, nextId, tokens>>

-----------------------------------------------------------------------------

Init ==
    /\ directory = {}
    /\ nextId = 1
    /\ now = 0
    /\ tokens = {}
    /\ resp = Resp("init", [status |-> 0, detail |-> ""], {}, {}, {}, {}, {})

Admitted(t) == IsOk(RoleChecker({ADMIN}, t, directory, now))

CreateAdmin(C) == \E u \in C : create_admin_user(u.username, u.email, u.password)
Register(T, C) ==
    \E t \in T :
        IF Admitted(t)
        THEN \E u \in C : create_user(t, u)
        ELSE create_user(t, The(C))
Login == \E n \in Usernames, p \in Passwords : login_for_access_token(n, p)
Refresh == \E t \in Presentable : refresh_token(t)
ReadMe == \E t \in Presentable : read_users_me(t)
ListUsers == \E t \in Presentable : list_users(t)
GetUser ==
    \E t \in Presentable :
        IF Admitted(t)
        THEN \E i \in 1..MaxId : users_get_user(t, i)
        ELSE users_get_user(t, 1)
UpdateUser(T, P) ==
    \E t \in T :
        IF Admitted(t)
        THEN \E i \in 1..MaxId, d \in P : update_user(t, i, d)
        ELSE update_user(t, 1, NoChange)
DeleteUser(T) ==
    \E t \in T :
        IF Admitted(t)
        THEN \E i \in 1..MaxId : delete_user(t, i)
        ELSE delete_user(t, 1)

NextAuth ==
    \/ CreateAdmin(AuthCreates)
    \/ Register(Presentable, AuthCreates)
    \/ Login
    \/ Refresh
    \/ ReadMe
    \/ ListUsers
    \/ GetUser
    \/ UpdateUser(Presentable, AuthUpdates)
    \/ DeleteUser(Presentable)
    \/ Tick

SpecAuth == Init /\ [][NextAuth]_vars

(* check_role on its own: every identity against every allowed list *)
AllowedLists == SUBSET (RoleType \cup {Wildcard})
RoleSubjects ==
    {[NewUser(1, "alice", EmailFor("alice"), hash_password(StrongPw), r)
        EXCEPT !.is_active = a] : r \in RoleType, a \in BOOLEAN}

InitRole ==
    /\ directory \in {{u} : u \in RoleSubjects}
    /\ nextId = 2
    /\ now = 0
    /\ tokens = {}
    /\ resp \in {[op |-> "pending", allowed |-> l, status |-> 0, detail |-> "",
                  val |-> {}] : l \in AllowedLists}

ApplyCheckRole ==
    /\ resp.op = "pending"
    /\ \E u \in directory :
          LET r == check_role(u, resp.allowed)
          IN  resp' = [op |-> "check_role", allowed |-> resp.allowed,
                       status |-> r.status, detail |-> r.detail, val |-> r.val]
    /\ UNCHANGED <<directory, nextId, now, tokens>>

NextRole == ApplyCheckRole

SpecRole == InitRole /\ [][NextRole]_vars

NextDir ==
    \/ CreateAdmin(CreatePayloads)
    \/ Register(AccessTokens, CreatePayloads)
    \/ Login
    \/ UpdateUser(AccessTokens, DirUpdates)
    \/ DeleteUser(AccessTokens)

SpecDir == Init /\ [][NextDir]_vars

(* update_user on its own: one PATCH, by the administrator, of the        *)
(* administrator or of another identity, with every payload over the      *)
(* fields of UserUpdate; a password field is absent, empty or a password. *)
PatchPasswords == Passwords \cup {EmptyPw}
PatchPayloads ==
    [username : Opt(Usernames), email : Opt(Emails),
     first_name : Opt(Names), last_name : Opt(Names),
     is_active : Opt(BOOLEAN), role : Opt(RoleInputs),
     old_password : Opt(PatchPasswords), new_password : Opt(PatchPasswords)]

InitPatch ==
    /\ directory =
          {NewUser(1, "alice", EmailFor("alice"), hash_password(StrongPw), ADMIN),
           NewUser(2, "bob", EmailFor("bob"), hash_password(StrongPw), USER)}
    /\ nextId = 3
    /\ now = 0
    /\ tokens = {encode_token("alice", ADMIN, AccessTtl, 0)}
    /\ resp \in {[op |-> "pending", user_id |-> i, user_update |-> d] :
                    i \in 1..MaxId, d \in PatchPayloads}

ApplyPatch ==
    /\ resp.op = "pending"
    /\ \E t \in tokens : update_user(t, resp.user_id, resp.user_update)

NextPatch == ApplyPatch

SpecPatch == InitPatch /\ [][NextPatch]_vars

(* validate_password on its own and at a registration: every password of *)
(* up to MaxLen characters over one character of each class and one of   *)
(* no class, and a five-character stem of three classes completed by     *)
(* every character of the alphabet.                                      *)
PolicyChars == {"A", "a", "1", "!", "-"}
Stem == <<"A", "a", "1", "a", "a">>
AllChars == UpperChars \cup LowerChars \cup DigitChars \cup SpecialChars \cup {"-"}
PolicyPasswords ==
    UNION {[1..n -> PolicyChars] : n \in 0..MaxLen}
        \cup {Append(Stem, c) : c \in AllChars}
        \cup Passwords

Applicant(p) == [username |-> "bob", email |-> EmailFor("bob"), password |-> p]

InitPolicy ==
    /\ directory = {NewUser(1, "alice", EmailFor("alice"), hash_password(StrongPw), ADMIN)}
    /\ nextId = 2
    /\ now = 0
    /\ tokens = {encode_token("alice", ADMIN, AccessTtl, 0)}
    /\ resp \in {Resp("pending", Err(0, ""), {}, {}, {p}, {}, {}) : p \in PolicyPasswords}

ApplyValidatePassword ==
    /\ resp.op = "pending"
    /\ resp' = Resp("validate_password", validate_password(The(resp.password)),
                    {}, {}, resp.password, {}, {})
    /\ UNCHANGED <<directory, nextId, now, tokens>>

RegisterApplicant ==
    /\ resp.op = "pending"
    /\ \E t \in tokens : create_user(t, Applicant(The(resp.password)))

NextPolicy == ApplyValidatePassword \/ RegisterApplicant

SpecPolicy == InitPolicy /\ [][NextPolicy]_vars

(* encode_token and decode_token on their own: one token of a login pair, *)
(* issued at a sampled instant on or between two seconds, is read back,   *)
(* as issued or altered, at the instants around its expiry.               *)
IssueInstants == 0..TicksPerSecond
Around(d) == (d - 1)..(d + TicksPerSecond + 1)
CodecInstants == IssueInstants \cup Around(AccessTtl) \cup Around(RefreshTtl)
Kinds == {"access", "refresh"}

(* a token whose payload was edited after signing, and a foreign one *)
Altered(T) == {[t EXCEPT !.exp = @ + 60, !.sig = FALSE] : t \in T}
Offered == tokens \cup Altered(tokens) \cup {ForgedToken}

Exchange(op, kind, sub, role, issued, tok, r) ==
    [op |-> op, kind |-> kind, sub |-> sub, role |-> role, issued |-> issued,
     token |-> tok, status |-> r.status, detail |-> r.detail, val |-> r.val]

InitCodec ==
    /\ directory = {}
    /\ nextId = 1
    /\ now \in IssueInstants
    /\ tokens = {}
    /\ resp = Exchange("pending", "", "", NoRole, 0, {}, Err(0, ""))

ApplyEncode ==
    /\ resp.op = "pending"
    /\ \E n \in Usernames, r \in RoleType, k \in Kinds :
          LET tok == IF k = "access"
                     THEN encode_token(n, r, AccessTtl, now)
                     ELSE encode_token(n, NoRole, RefreshTtl, now)
          IN  /\ tokens' = {tok}
              /\ resp' = Exchange("encode", k, tok.sub, tok.role, now, {tok}, Err(0, ""))
    /\ UNCHANGED <<directory, nextId, now>>

ApplyDecode ==
    /\ resp.op = "encode"
    /\ \E tok \in Offered :
          resp' = Exchange("decode", resp.kind, resp.sub, resp.role, resp.issued,
                           {tok}, decode_token(tok, now))
    /\ UNCHANGED <<directory, nextId, now, tokens>>

CodecTick ==
    /\ resp.op \in {"encode", "decode"}
    /\ \E t \in CodecInstants : t > now /\ now' = t
    /\ resp' = Exchange("encode", resp.kind, resp.sub, resp.role, resp.issued,
                        tokens, Err(0, ""))
    /\ UNCHANGED <<directory, nextId, tokens>>

NextCodec == ApplyEncode \/ ApplyDecode \/ CodecTick

SpecCodec == InitCodec /\ [][NextCodec]_vars

-----------------------------------------------------------------------------
(* Properties *)

AdminOnlyOps == {"register", "list_users", "get_user", "update_user", "delete_user"}
ProtectedOps == AdminOnlyOps \cup {"me"}
Unexpired(t) == IsOk(decode_token(t, now))
Named(n) == {u \in directory : u.username = n}

(* C1: a login on an existing inactive identity is answered 423 Locked,   *)
(* with the correct password and with a wrong one alike; it is never      *)
(* answered 401 and carries no token.                                     *)
C1_InactiveLoginLocked ==
    resp.op = "login" =>
        \A n \in resp.username : \A u \in Named(n) :
            ~u.is_active =>
                /\ resp.status = 423
                /\ resp.detail = "Inactive user."
                /\ resp.access = {} /\ resp.refresh = {}

(* an inactive identity was offered a wrong password and got Locked *)
C1_Witness ==
    /\ resp.op = "login"
    /\ resp.status = 423
    /\ \E n \in resp.username, u \in directory, p \in resp.password :
          /\ u.username = n
          /\ ~u.is_active
          /\ ~verify_password(p, u.hashed_password)

(* C2: a protected operation presented with an unexpired token whose      *)
(* subject is an inactive identity is answered "Inactive user" whatever   *)
(* the identity's role, and the handler does not run.                     *)
C2_InactiveCallerRejected ==
    [][\A t \in resp'.token :
          (/\ resp'.op \in ProtectedOps
           /\ Unexpired(t)
           /\ \E u \in Named(t.sub) : ~u.is_active)
          => /\ resp'.status = 400
             /\ resp'.detail = "Inactive user"
             /\ UNCHANGED <<directory, nextId, tokens>>]_vars

(* an inactive caller without the Admin role was stopped at an admin-only *)
(* operation as inactive, not as forbidden                                *)
C2_Witness ==
    /\ resp.op \in AdminOnlyOps
    /\ resp.status = 400
    /\ resp.detail = "Inactive user"
    /\ \E t \in resp.token, u \in directory :
          /\ Unexpired(t)
          /\ u.username = t.sub
          /\ ~u.is_active
          /\ u.role # ADMIN

(* C3: a successful refresh returns an access token for the subject of    *)
(* the presented token whose role claim is the role stored now, and a     *)
(* refresh token without a role claim.                                    *)
C3_RefreshUsesStoredRole ==
    (resp.op = "refresh" /\ resp.status = 200) =>
        \A t \in resp.token :
            /\ Named(t.sub) # {}
            /\ \A u \in Named(t.sub) :
                  /\ \E a \in resp.access :
                        resp.access = {a} /\ a.sub = u.username /\ a.role = u.role
                  /\ \E f \in resp.refresh :
                        resp.refresh = {f} /\ f.sub = u.username /\ f.role = NoRole

(* a refresh token was exchanged while the access token of the same login *)
(* still carries another role than the one just issued                    *)
C3_Witness ==
    /\ resp.op = "refresh"
    /\ resp.status = 200
    /\ \E t \in resp.token, a \in resp.access, old \in tokens :
          /\ t.role = NoRole
          /\ t \in tokens
          /\ old.sub = t.sub
          /\ old.exp * TicksPerSecond + RefreshTtl = t.exp * TicksPerSecond + AccessTtl
          /\ old.role \in RoleType
          /\ old.role # a.role

(* C4: no response, to a login or to a refresh presenting a refresh       *)
(* token, carries a token pair for an identity that is inactive when the  *)
(* pair is issued.                                                        *)
C4_NoPairForInactive ==
    (\A t \in resp.token : t.role = NoRole) =>
        \A a \in resp.access \cup resp.refresh :
            \A u \in Named(a.sub) : u.is_active

(* C5: a refresh with a signed, unexpired refresh token whose subject is  *)
(* not in the directory is answered 401 and issues nothing.               *)
C5_RefreshUnknownSubject401 ==
    resp.op = "refresh" =>
        \A t \in resp.token :
            (t.role = NoRole /\ Unexpired(t) /\ Named(t.sub) = {}) =>
                /\ resp.status = 401
                /\ resp.access = {} /\ resp.refresh = {}

(* C6: at an admin-only operation, for an unexpired token of an active    *)
(* identity, the caller is refused with 403 exactly when the role stored  *)
(* for the subject is not Admin, whatever role the token carries; a       *)
(* refused call leaves the directory alone.                               *)
C6_GuardUsesStoredRole ==
    [][\A t \in resp'.token :
          (/\ resp'.op \in AdminOnlyOps
           /\ Unexpired(t))
          => \A u \in Named(t.sub) :
                u.is_active =>
                    /\ (resp'.status = 403) <=> (u.role # ADMIN)
                    /\ (u.role # ADMIN) => UNCHANGED <<directory, nextId, tokens>>]_vars

(* an access token that says Admin was refused at an admin-only operation *)
C6_Witness ==
    /\ resp.op \in AdminOnlyOps
    /\ resp.status = 403
    /\ \E t \in resp.token : t.role = ADMIN /\ Unexpired(t)

(* an access token that says User was admitted at an admin-only operation *)
C6_WitnessPromoted ==
    /\ resp.op \in AdminOnlyOps
    /\ resp.status \in {200, 201, 204}
    /\ \E t \in resp.token : t.role = USER /\ Unexpired(t)

(* C7: check_role returns the identity exactly when its role is in the    *)
(* allowed list or the list holds the wildcard, and 403 otherwise; the    *)
(* list {"*"} admits Admin, User and Tester, the list {Admin} refuses     *)
(* User and Tester.                                                       *)
C7_CheckRole ==
    resp.op = "check_role" =>
        \A u \in directory :
            LET admit == u.role \in resp.allowed \/ Wildcard \in resp.allowed
            IN  /\ admit => (resp.status = 200 /\ resp.val = {u})
                /\ ~admit => (resp.status = 403 /\ resp.val = {})
                /\ resp.allowed = {Wildcard} => resp.val = {u}
                /\ (resp.allowed = {ADMIN} /\ u.role \in {USER, TESTER})
                      => resp.status = 403

(* the wildcard alone admitted a Tester *)
C7_Witness ==
    /\ resp.op = "check_role"
    /\ resp.allowed = {Wildcard}
    /\ resp.status = 200
    /\ \E u \in resp.val : u.role = TESTER

(* C8: no two identities of the directory share a username, and no two    *)
(* share an email.                                                        *)
C8_UniqueUsernameAndEmail ==
    \A u, v \in directory :
        u # v => (u.username # v.username /\ u.email # v.email)

C8_UniqueUsername ==
    \A u, v \in directory : u # v => u.username # v.username

(* C9: a registration by an admitted caller whose username, or whose      *)
(* email, is already in the directory is answered 409 and changes         *)
(* nothing in the directory.                                              *)
C9_DuplicateRegistrationConflict ==
    [][\A t \in resp'.token, c \in CreatePayloads :
          (/\ resp'.op = "register"
           /\ create_user(t, c)
           /\ Admitted(t)
           /\ \E u \in directory : u.username = c.username \/ u.email = c.email)
          => /\ resp'.status = 409
             /\ UNCHANGED <<directory, nextId>>]_vars

(* a registration was refused for its username *)
C9_Witness ==
    /\ resp.op = "register"
    /\ resp.status = 409
    /\ resp.detail = "L'utilisateur existe dejas."

(* a registration was refused for its email *)
C9_WitnessEmail ==
    /\ resp.op = "register"
    /\ resp.status = 409
    /\ resp.detail = "l'Email est deja utilise."

(* C10: an update by an admitted caller that carries old_password and a   *)
(* new_password violating the password policy is answered 400 with the   *)
(* policy's message and leaves the stored hash unchanged.                 *)
C10_UpdateRejectsWeakPassword ==
    [][\A t \in resp'.token, i \in 1..MaxId, d \in DirUpdates :
          (/\ resp'.op = "update_user"
           /\ update_user(t, i, d)
           /\ Admitted(t)
           /\ ById(directory, i) # {}
           /\ Truthy(d.old_password) /\ Truthy(d.new_password)
           /\ ~IsOk(validate_password(The(d.new_password))))
          => /\ resp'.status = 400
             /\ resp'.detail = validate_password(The(d.new_password)).detail
             /\ \A u \in ById(directory, i), v \in ById(directory', i) :
                   v.hashed_password = u.hashed_password]_vars

(* C11: every role in the directory is one of Admin, User, Tester; an     *)
(* update by an admitted caller whose role field is outside that set is   *)
(* answered with a validation error (400 / 422) and leaves the directory, *)
(* and so the identity's role, unchanged.                                 *)
C11_UnknownRoleIsValidationError ==
    [][/\ \A u \in directory' : u.role \in RoleType
       /\ \A t \in resp'.token, i \in 1..MaxId, d \in SetRole :
             (/\ resp'.op = "update_user"
              /\ update_user(t, i, d)
              /\ Admitted(t)
              /\ ById(directory, i) # {}
              /\ The(d.role) \notin RoleType)
             => /\ resp'.status \in {400, 422}
                /\ UNCHANGED directory]_vars

(* the part of C11 that holds: the closed set is kept, by the store *)
C11_RolesInClosedSet == \A u \in directory : u.role \in RoleType

(* the lifetime the claim gives a token of each kind, in ticks *)
C12_Ttl(kind) ==
    IF kind = "access" THEN 15 * 60 * TicksPerSecond
    ELSE 7 * 24 * 60 * 60 * TicksPerSecond

(* C12: a token issued at T with lifetime ttl (15 minutes for an access   *)
(* token, 7 days for a refresh token) decodes to its claims at every time *)
(* up to T + ttl and fails with "Token expired." at every time after      *)
(* T + ttl; a token that is not a signed output of encode_token fails     *)
(* with the credentials error, never with "Token expired.".               *)
C12_DecodeUpToTtl ==
    resp.op = "decode" =>
        \A tok \in resp.token :
            IF tok \in tokens
            THEN /\ now <= resp.issued + C12_Ttl(resp.kind) =>
                       /\ resp.status = 200
                       /\ \E c \in resp.val :
                             resp.val = {c} /\ c.sub = resp.sub /\ c.role = resp.role
                 /\ now > resp.issued + C12_Ttl(resp.kind) =>
                       /\ resp.status = 401
                       /\ resp.detail = "Token expired."
            ELSE /\ resp.status = 401
                 /\ resp.detail = "Could not validate credentials"
                 /\ resp.val = {}

(* the second in which T + ttl falls, in ticks *)
C12_ExpirySecond ==
    ((resp.issued + C12_Ttl(resp.kind)) \div TicksPerSecond) * TicksPerSecond

(* C12, amended: the token decodes to its claims at every time before    *)
(* the start of the second in which T + ttl falls and fails with "Token   *)
(* expired." from the start of that second on; the rest as stated.        *)
C12_DecodeUntilExpirySecond ==
    resp.op = "decode" =>
        \A tok \in resp.token :
            IF tok \in tokens
            THEN /\ now < C12_ExpirySecond =>
                       /\ resp.status = 200
                       /\ \E c \in resp.val :
                             /\ resp.val = {c}
                             /\ c.sub = resp.sub /\ c.role = resp.role
                             /\ c.exp * TicksPerSecond = C12_ExpirySecond
                 /\ now >= C12_ExpirySecond =>
                       /\ resp.status = 401
                       /\ resp.detail = "Token expired."
            ELSE /\ resp.status = 401
                 /\ resp.detail = "Could not validate credentials"
                 /\ resp.val = {}

(* a signed token was refused as expired before T + ttl had passed *)
C12_Witness ==
    /\ resp.op = "decode"
    /\ resp.token = tokens
    /\ resp.detail = "Token expired."
    /\ now < resp.issued + C12_Ttl(resp.kind)

(* a signed token was refused as expired at T + ttl exactly *)
C12_WitnessAtTtl ==
    /\ resp.op = "decode"
    /\ resp.token = tokens
    /\ resp.detail = "Token expired."
    /\ now = resp.issued + C12_Ttl(resp.kind)

(* an altered token was refused after its expiry, as invalid *)
C12_WitnessAltered ==
    /\ resp.op = "decode"
    /\ \E tok \in resp.token : ~tok.sig /\ tok.exp * TicksPerSecond <= now
    /\ resp.detail = "Could not validate credentials"

(* the rules of the claim, in its order, each with the message it cites *)
C13_Special == {"@", "$", "!", "%", "*", "?", "&", "#"}
C13_Unmet(p) ==
    << Len(p) < 6,
       ~\E i \in 1..Len(p) : p[i] \in UpperChars,
       ~\E i \in 1..Len(p) : p[i] \in LowerChars,
       ~\E i \in 1..Len(p) : p[i] \in DigitChars,
       ~\E i \in 1..Len(p) : p[i] \in C13_Special >>
C13_Message ==
    << "Password must be at least 6 characters long.",
       "Password must contain at least one uppercase letter.",
       "Password must contain at least one lowercase letter.",
       "Password must contain at least one number.",
       "Password must contain at least one special character." >>
C13_Verdict(p, status, detail) ==
    IF \A i \in 1..5 : ~C13_Unmet(p)[i]
    THEN status \in {200, 201}
    ELSE /\ status = 400
         /\ \E i \in 1..5 :
               /\ C13_Unmet(p)[i]
               /\ \A j \in 1..(i - 1) : ~C13_Unmet(p)[j]
               /\ detail = C13_Message[i]

(* C13: validate_password succeeds exactly when the password has at      *)
(* least 6 characters, an uppercase letter, a lowercase letter, a digit   *)
(* and one of @ $ ! % * ? & #; otherwise it fails with 400 and the        *)
(* message of the first unmet rule in that order ("abc" cites the         *)
(* length); a registration refused by it creates no identity.             *)
C13_ValidatePassword ==
    [][\A p \in resp.password :
          /\ resp'.op = "validate_password" =>
                /\ C13_Verdict(p, resp'.status, resp'.detail)
                /\ p = <<"a", "b", "c">> => resp'.detail = C13_Message[1]
          /\ resp'.op = "register" =>
                /\ C13_Verdict(p, resp'.status, resp'.detail)
                /\ resp'.status = 400 => UNCHANGED <<directory, nextId>>
                /\ resp'.status = 201 =>
                      \E u \in directory' \ directory :
                          verify_password(p, u.hashed_password)]_vars

(* a registration was refused for a password that only lacks a special   *)
(* character, and the directory holds the administrator alone             *)
C13_Witness ==
    /\ resp.op = "register"
    /\ resp.status = 400
    /\ resp.detail = C13_Message[5]
    /\ Cardinality(directory) = 1

(* "abc" was refused for its length *)
C13_WitnessAbc ==
    /\ resp.op = "validate_password"
    /\ resp.password = {<<"a", "b", "c">>}
    /\ resp.detail = C13_Message[1]

(* a password of exactly six characters was accepted *)
C13_WitnessSix ==
    /\ resp.op = "validate_password"
    /\ resp.status = 200
    /\ \E p \in resp.password : Len(p) = 6

(* row v is row u with the fields of payload d other than the passwords *)
C14_Applied(u, v, d) ==
    /\ v.username = IF d.username # Unset THEN The(d.username) ELSE u.username
    /\ v.email = IF d.email # Unset THEN The(d.email) ELSE u.email
    /\ v.first_name = IF d.first_name # Unset THEN The(d.first_name) ELSE u.first_name
    /\ v.last_name = IF d.last_name # Unset THEN The(d.last_name) ELSE u.last_name
    /\ v.is_active = IF d.is_active # Unset THEN The(d.is_active) ELSE u.is_active
    /\ v.role = IF d.role # Unset THEN The(d.role) ELSE u.role

(* what the claim says of one PATCH of row u with payload d, `both`      *)
(* telling whether the payload counts as carrying both passwords and      *)
(* `one` whether it counts as carrying exactly one; an update the store   *)
(* refuses is answered 500 and is left out of "the fields are applied".   *)
C14_Frame(u, d, both, one) ==
    LET verifies == verify_password(The(d.old_password), u.hashed_password)
        after == ById(directory', u.id)
    IN  /\ \A v \in after :
              v.hashed_password # u.hashed_password => (both /\ verifies)
        /\ (both /\ ~verifies) =>
              /\ resp'.status = 401
              /\ resp'.detail = "Could not validate credentials"
              /\ UNCHANGED directory
        /\ one =>
              /\ resp'.status \in {200, 500}
              /\ resp'.status = 500 => UNCHANGED directory
              /\ resp'.status = 200 =>
                    \E v \in after :
                        /\ directory' = (directory \ {u}) \cup {v}
                        /\ v.hashed_password = u.hashed_password
                        /\ C14_Applied(u, v, d)

(* C14: a PATCH changes the stored hash only when it carries both        *)
(* old_password and new_password and old_password verifies; when          *)
(* old_password does not verify it is answered 401 and no field of the    *)
(* payload is applied; when only one of the two is carried the hash is    *)
(* unchanged and the other fields are applied.                            *)
C14_PasswordChangeFrame ==
    [][(resp.op = "pending" /\ resp'.op = "update_user") =>
          \A u \in ById(directory, resp.user_id) :
              LET d == resp.user_update
                  old == d.old_password # Unset
                  new == d.new_password # Unset
              IN  C14_Frame(u, d, old /\ new, old # new)]_vars

(* C14, amended: as C14, a password field counting as carried only when  *)
(* it is a non-empty string; with both carried and the old one verified,  *)
(* the hash of the new one is stored along with the other fields.         *)
C14_NonEmptyPasswordChangeFrame ==
    [][(resp.op = "pending" /\ resp'.op = "update_user") =>
          \A u \in ById(directory, resp.user_id) :
              LET d == resp.user_update
                  old == d.old_password \notin {Unset, {EmptyPw}}
                  new == d.new_password \notin {Unset, {EmptyPw}}
              IN  /\ C14_Frame(u, d, old /\ new, ~(old /\ new))
                  /\ (/\ old /\ new
                      /\ verify_password(The(d.old_password), u.hashed_password)
                      /\ resp'.status = 200)
                     => \E v \in ById(directory', u.id) :
                           /\ verify_password(The(d.new_password), v.hashed_password)
                           /\ C14_Applied(u, v, d)]_vars

(* a PATCH was refused for its old password and both rows are as they    *)
(* were                                                                   *)
C14_Witness ==
    /\ resp.op = "update_user"
    /\ resp.status = 401
    /\ \A u \in directory :
          /\ u.first_name = NoName
          /\ u.is_active
          /\ verify_password(StrongPw, u.hashed_password)

(* a PATCH stored a new hash together with a new name *)
C14_WitnessChanged ==
    /\ resp.op = "update_user"
    /\ resp.status = 200
    /\ \E u \in directory :
          /\ verify_password(WeakPw, u.hashed_password)
          /\ u.first_name # NoName

(* C15: a signed, unexpired token whose subject is in the directory is    *)
(* exchanged for a new pair at the refresh operation, and one whose       *)
(* subject is active passes the guard of every protected operation        *)
(* (which then decides on the stored role alone), whether the token       *)
(* carries a role claim (access token) or not (refresh token).            *)
C15_TokenKindsInterchangeable ==
    [][\A t \in resp'.token :
          (Unexpired(t) /\ Named(t.sub) # {}) =>
              /\ resp'.op = "refresh" =>
                    /\ resp'.status = 200
                    /\ \E a \in resp'.access, f \in resp'.refresh :
                          /\ a.sub = t.sub /\ f.sub = t.sub
                          /\ f.exp * TicksPerSecond = now + 7 * 24 * 60 * 60 * TicksPerSecond
              /\ \A u \in Named(t.sub) :
                    u.is_active =>
                        /\ resp'.op = "me" => resp'.status = 200
                        /\ resp'.op \in AdminOnlyOps =>
                              /\ resp'.status # 401
                              /\ resp'.detail # "Inactive user"
                              /\ (resp'.status = 403) <=> (u.role # ADMIN)]_vars

(* an access token was exchanged for a new pair *)
C15_Witness ==
    /\ resp.op = "refresh"
    /\ resp.status = 200
    /\ \E t \in resp.token, f \in resp.refresh :
          /\ t.role \in RoleType
          /\ f.role = NoRole
          /\ f.exp > t.exp

(* a refresh token was the bearer token of an admin-only operation that  *)
(* went through, after the access token of the same login had expired     *)
C15_WitnessBearer ==
    /\ resp.op \in AdminOnlyOps
    /\ resp.status \in {200, 201, 204}
    /\ \E t \in resp.token :
          /\ t.role = NoRole
          /\ Unexpired(t)
          /\ now >= AccessTtl
          /\ t.exp * TicksPerSecond = RefreshTtl

=============================================================================
